---- MODULE Spec2Model ----
(***************************************************************************)
(* Model of setup.py of XStatic-Angular: one build invocation.              *)
(*                                                                         *)
(*   line 5      long_description = open('README.txt').read()               *)
(*   line 15     packages=find_packages()   (argument evaluated first)      *)
(*   lines 7-17  setup(name=..., description=long_description, ...)         *)
(*                                                                         *)
(* The script has no try/except: an exception raised by any statement      *)
(* unwinds to the top level and ends the run.  What happens inside         *)
(* setup() and find_packages() is setuptools' code, not the script's; it   *)
(* is modelled from the specification's description of the packaging tool. *)
(***************************************************************************)
EXTENDS Integers, Sequences, FiniteSets, TLC

\* ---------------------------------------------------------------- bounds
\* Longest README.txt content, in characters.
MaxLen == 2
\* Number of directories under the project root.
MaxDirs == 3

\* ------------------------------------------------------- the environment
\* Characters of a file: a plain character, carriage return, line feed and
\* a byte above 0x7F (which a strict ASCII/UTF-8 decoder rejects).
Chars == {"a", "CR", "LF", "HI"}

Contents == UNION {[1..n -> Chars] : n \in 0..MaxLen}

\* Directories under the project root (0 is the root itself); Parent gives
\* the tree shape: 1 and 2 are top-level, 3 and 4 are inside 1, ...
Dirs == 1..MaxDirs

Parent(d) == (d - 1) \div 2

\* What source control can resolve: nothing, or one of two versions.
NoVersion == "none"

Versions == {"1.4.10.1", "1.4.10.2"}

VARIABLES
    readme_exists,      \* README.txt is present in the working directory
    readme_content,     \* its content (<<>> when absent)
    universal_newlines, \* text mode translates CRLF and CR to LF (Python 3)
    strict_decoding,    \* text mode decodes with a codec that rejects "HI"
    init_dirs,          \* the directories that hold an __init__.py
    scm_version,        \* what source control resolves to, or NoVersion
    pc,                 \* the statement the interpreter is at
    long_description,   \* module global of line 5 (<<>> while unbound)
    reads,              \* completed reads of README.txt
    packages,           \* value of the argument expression of line 15
    setup_calls,        \* number of calls of setup()
    setup_args,         \* <<>> or <<the keyword arguments of the call>>
    version,            \* the version the packaging tool resolved
    artifact,           \* <<>> or <<the distribution the tool produced>>
    raised,             \* the exception raised, "none" while there is none
    surfaced            \* the exception the invoker sees, "none" if none

env == <<readme_exists, readme_content, universal_newlines, strict_decoding,
         init_dirs, scm_version>>

vars == <<readme_exists, readme_content, universal_newlines, strict_decoding,
          init_dirs, scm_version, pc, long_description, reads, packages,
          setup_calls, setup_args, version, artifact, raised, surfaced>>

\* ------------------------------------------------- line 5: open().read()
\* open('README.txt'): mode 'r'; raises when the file does not exist.
open_error_absorbed(exists) == "none"

open(exists) == IF exists THEN "none" ELSE "FileNotFoundError"

\* Text-mode decoding: a strict codec raises on a byte it cannot decode.
decode_error(bytes, strict) ==
    IF strict /\ \E i \in 1..Len(bytes) : bytes[i] = "HI"
    THEN "UnicodeDecodeError" ELSE "none"

\* Universal-newline translation: "\r\n" and a lone "\r" become "\n".
RECURSIVE translate_newlines(_)
translate_newlines(s) ==
    IF s = <<>> THEN <<>>
    ELSE IF Head(s) = "CR"
         THEN IF Len(s) >= 2 /\ s[2] = "LF"
              THEN <<"LF">> \o translate_newlines(SubSeq(s, 3, Len(s)))
              ELSE <<"LF">> \o translate_newlines(Tail(s))
         ELSE <<Head(s)>> \o translate_newlines(Tail(s))

\* A read() that drops trailing whitespace, as .read().strip() would.
RECURSIVE rstrip(_)
rstrip(s) ==
    IF s # <<>> /\ s[Len(s)] \in {"CR", "LF"}
    THEN rstrip(SubSeq(s, 1, Len(s) - 1)) ELSE s

read_stripped(bytes, universal) ==
    rstrip(IF universal THEN translate_newlines(bytes) ELSE bytes)

\* file.read() in text mode: the whole content, newlines translated when
\* the interpreter reads with universal newlines.
read(bytes, universal) ==
    IF universal THEN translate_newlines(bytes) ELSE bytes

\* ------------------------------------------- line 15: find_packages()
\* A directory is a package when it holds an __init__.py and every
\* directory between it and the project root is a package.
RECURSIVE is_package(_, _)
is_package(d, inits) ==
    /\ d \in inits
    /\ (Parent(d) = 0 \/ is_package(Parent(d), inits))

find_packages(inits) == {d \in Dirs : is_package(d, inits)}

\* packages=find_packages() or <a default package>
packages_or_default(inits) ==
    IF find_packages(inits) = {} THEN {1} ELSE find_packages(inits)

\* The argument expression of line 15.
packages_arg(inits) == find_packages(inits)

\* ------------------------------------------ lines 7-17: setup(**kwargs)
\* The call with a hardcoded version instead of use_scm_version.
setup_kwargs_static_version(description, pkgs) ==
    [name                 |-> "XStatic-Angular",
     summary              |-> "Angular 1.4.10 (XStatic packaging standard)",
     description          |-> description,
     maintainer           |-> "Rob Cresswell",
     maintainer_email     |-> "robert.cresswell@outlook.com",
     use_scm_version      |-> FALSE,
     setup_requires       |-> <<"setuptools_scm", "wheel">>,
     packages             |-> pkgs,
     include_package_data |-> TRUE]

\* The call with a name that follows the discovered packages.
setup_kwargs_derived_name(description, pkgs) ==
    [name                 |-> IF pkgs = {} THEN "UNKNOWN" ELSE "XStatic-Angular",
     summary              |-> "Angular 1.4.10 (XStatic packaging standard)",
     description          |-> description,
     maintainer           |-> "Rob Cresswell",
     maintainer_email     |-> "robert.cresswell@outlook.com",
     use_scm_version      |-> TRUE,
     setup_requires       |-> <<"setuptools_scm", "wheel">>,
     packages             |-> pkgs,
     include_package_data |-> TRUE]

\* The keyword arguments of the setup() call.
setup_kwargs(description, pkgs) ==
    [name                 |-> "XStatic-Angular",
     summary              |-> "Angular 1.4.10 (XStatic packaging standard)",
     description          |-> description,
     maintainer           |-> "Rob Cresswell",
     maintainer_email     |-> "robert.cresswell@outlook.com",
     use_scm_version      |-> TRUE,
     setup_requires       |-> <<"setuptools_scm", "wheel">>,
     packages             |-> pkgs,
     include_package_data |-> TRUE]

\* ------------------------------------------------ the packaging tool
\* Version the tool gives a distribution that names none.
DefaultVersion == "0.0.0"

\* Version resolution: from source control when the call asks for it.
resolve_version(kwargs, scm) ==
    IF kwargs.use_scm_version THEN scm ELSE DefaultVersion

\* The distribution built from the metadata.
build(kwargs, v) ==
    [name        |-> kwargs.name,
     version     |-> v,
     description |-> kwargs.description,
     packages    |-> kwargs.packages]

\* ------------------------------------------------ control flow
\* Statements in execution order.
first_statement_skipping_read == "find_packages"

first_statement == "open_read"

\* An exception nobody catches: the run ends and the invoker sees it.
uncaught_retry(exc) == [pc |-> "open_read", surfaced |-> "none"]

\* An exception caught at top level and replaced by an exit status.
uncaught_wrapped(exc) == [pc |-> "failed", surfaced |-> "SystemExit"]

uncaught(exc) == [pc |-> "failed", surfaced |-> exc]

\* setup() is the last statement: when it returns the script is over.
after_setup_calls_again == "setup"

after_setup == "artifact"

Terminal == {"artifact", "failed"}

TypeOK ==
    /\ readme_exists \in BOOLEAN
    /\ readme_content \in Contents
    /\ universal_newlines \in BOOLEAN
    /\ strict_decoding \in BOOLEAN
    /\ init_dirs \subseteq Dirs
    /\ scm_version \in Versions \cup {NoVersion}
    /\ pc \in {"open_read", "find_packages", "setup", "resolve_version",
               "build", "unwinding", "artifact", "failed"}
    /\ reads \in Nat
    /\ setup_calls \in Nat
    /\ Len(setup_args) <= 1
    /\ Len(artifact) <= 1

Init ==
    /\ readme_exists \in BOOLEAN
    /\ readme_content \in Contents
    /\ (~readme_exists => readme_content = <<>>)
    /\ universal_newlines \in BOOLEAN
    /\ strict_decoding \in BOOLEAN
    /\ init_dirs \in SUBSET Dirs
    /\ scm_version \in Versions \cup {NoVersion}
    /\ pc = first_statement
    /\ long_description = <<>>
    /\ reads = 0
    /\ packages = {}
    /\ setup_calls = 0
    /\ setup_args = <<>>
    /\ version = "unset"
    /\ artifact = <<>>
    /\ raised = "none"
    /\ surfaced = "none"

\* raise exc at the current statement
Raise(exc) ==
    /\ raised' = exc
    /\ pc' = "unwinding"

\* line 5, the file cannot be opened
OpenFails ==
    /\ pc = "open_read"
    /\ open(readme_exists) # "none"
    /\ Raise(open(readme_exists))
    /\ UNCHANGED <<env, long_description, reads, packages, setup_calls,
                   setup_args, version, artifact, surfaced>>

\* line 5, the content cannot be decoded
ReadFails ==
    /\ pc = "open_read"
    /\ open(readme_exists) = "none"
    /\ decode_error(readme_content, strict_decoding) # "none"
    /\ Raise(decode_error(readme_content, strict_decoding))
    /\ UNCHANGED <<env, long_description, reads, packages, setup_calls,
                   setup_args, version, artifact, surfaced>>

\* line 5, long_description = open('README.txt').read()
ReadDescription ==
    /\ pc = "open_read"
    /\ open(readme_exists) = "none"
    /\ decode_error(readme_content, strict_decoding) = "none"
    /\ long_description' = read(readme_content, universal_newlines)
    /\ reads' = reads + 1
    /\ pc' = "find_packages"
    /\ UNCHANGED <<env, packages, setup_calls, setup_args, version,
                   artifact, raised, surfaced>>

\* line 15, the packages argument is evaluated before the call
FindPackages ==
    /\ pc = "find_packages"
    /\ packages' = packages_arg(init_dirs)
    /\ pc' = "setup"
    /\ UNCHANGED <<env, long_description, reads, setup_calls, setup_args,
                   version, artifact, raised, surfaced>>

\* lines 7-17, control passes to the packaging tool
CallSetup ==
    /\ pc = "setup"
    /\ setup_calls' = setup_calls + 1
    /\ setup_args' = <<setup_kwargs(long_description, packages)>>
    /\ pc' = "resolve_version"
    /\ UNCHANGED <<env, long_description, reads, packages, version,
                   artifact, raised, surfaced>>

\* inside setup(): the version is resolved
ResolveVersion ==
    /\ pc = "resolve_version"
    /\ resolve_version(setup_args[1], scm_version) # NoVersion
    /\ version' = resolve_version(setup_args[1], scm_version)
    /\ pc' = "build"
    /\ UNCHANGED <<env, long_description, reads, packages, setup_calls,
                   setup_args, artifact, raised, surfaced>>

\* inside setup(): no version can be resolved
ResolveVersionFails ==
    /\ pc = "resolve_version"
    /\ resolve_version(setup_args[1], scm_version) = NoVersion
    /\ Raise("LookupError")
    /\ UNCHANGED <<env, long_description, reads, packages, setup_calls,
                   setup_args, version, artifact, surfaced>>

\* inside setup(): the distribution is built
Build ==
    /\ pc = "build"
    /\ artifact' = <<build(setup_args[1], version)>>
    /\ pc' = after_setup
    /\ UNCHANGED <<env, long_description, reads, packages, setup_calls,
                   setup_args, version, raised, surfaced>>

\* inside setup(): the tool rejects the metadata or the build breaks
BuildFails ==
    /\ pc = "build"
    /\ Raise("DistutilsError")
    /\ UNCHANGED <<env, long_description, reads, packages, setup_calls,
                   setup_args, version, artifact, surfaced>>

\* the exception reaches the top level of the script
Uncaught ==
    /\ pc = "unwinding"
    /\ pc' = uncaught(raised).pc
    /\ surfaced' = uncaught(raised).surfaced
    /\ UNCHANGED <<env, long_description, reads, packages, setup_calls,
                   setup_args, version, artifact, raised>>

Next ==
    \/ OpenFails
    \/ ReadFails
    \/ ReadDescription
    \/ FindPackages
    \/ CallSetup
    \/ ResolveVersion
    \/ ResolveVersionFails
    \/ Build
    \/ BuildFails
    \/ Uncaught

Spec == Init /\ [][Next]_vars

\* The interpreter keeps executing: every enabled statement is taken.
FairSpec == Spec /\ WF_vars(Next)

\* ------------------------------------------------------------ properties
\* README.txt is present and its content decodes.
Readable ==
    /\ readme_exists
    /\ decode_error(readme_content, strict_decoding) = "none"

NoCarriageReturn ==
    \A i \in 1..Len(readme_content) : readme_content[i] # "CR"

\* No directory directly under the project root holds an __init__.py, so
\* there is no sub-package to discover.
NoSubPackages == \A d \in init_dirs : Parent(d) # 0

\* C1 as stated: whenever setup() has been called, the description it was
\* given equals the content of README.txt exactly.
C1_DescriptionIsFileContent ==
    setup_calls >= 1 => setup_args[1].description = readme_content

\* C1 amended: the description given to setup() is the string read()
\* returned, untouched between the read and the call; it equals the file
\* content exactly when the content has no carriage return, and is the
\* content with CRLF and lone CR replaced by LF under universal newlines.
C1_DescriptionIsTextRead ==
    setup_calls >= 1 =>
        /\ setup_args[1].description = long_description
        /\ (NoCarriageReturn => setup_args[1].description = readme_content)
        /\ (universal_newlines =>
                setup_args[1].description = translate_newlines(readme_content))
        /\ (~universal_newlines => setup_args[1].description = readme_content)

C1_Witness ==
    /\ setup_calls = 1
    /\ readme_content = <<"a", "LF">>
    /\ setup_args[1].description = <<"a", "LF">>

\* C2: with README.txt absent the run can only fail with the missing-file
\* error: setup() is never called, no metadata record is passed on, no
\* artifact is produced, and the terminal state is the failed one.
C2_MissingFileFails ==
    ~readme_exists =>
        /\ setup_calls = 0
        /\ setup_args = <<>>
        /\ artifact = <<>>
        /\ pc \in {"open_read", "unwinding", "failed"}
        /\ raised \in {"none", "FileNotFoundError"}
        /\ (pc \in Terminal =>
                pc = "failed" /\ surfaced = "FileNotFoundError")

C2_Witness ==
    ~readme_exists /\ pc = "failed" /\ surfaced = "FileNotFoundError"

\* C3: with README.txt readable and no version resolvable from source
\* control, the run ends failed with the version-resolution error and
\* without an artifact; a version is only ever the one source control
\* resolved, never a hardcoded or default one.
C3_NoVersionFails ==
    /\ (Readable /\ scm_version = NoVersion) =>
          /\ artifact = <<>>
          /\ version = "unset"
          /\ (pc \in Terminal => pc = "failed" /\ surfaced = "LookupError")
    /\ (version # "unset" => version = scm_version)
    /\ (artifact # <<>> => artifact[1].version = scm_version)

C3_Witness ==
    /\ Readable
    /\ scm_version = NoVersion
    /\ setup_calls = 1
    /\ pc = "failed"
    /\ surfaced = "LookupError"

\* C4: every call of setup() names the distribution 'XStatic-Angular',
\* whatever the description, the version and the discovered packages.
C4_NameIsFixed ==
    /\ (setup_calls >= 1 => setup_args[1].name = "XStatic-Angular")
    /\ (artifact # <<>> => artifact[1].name = "XStatic-Angular")

C4_Witness ==
    /\ pc = "artifact"
    /\ artifact # <<>>
    /\ artifact[1].version = "1.4.10.2"
    /\ artifact[1].packages = {}
    /\ artifact[1].description = <<"LF", "a">>

\* C6 as stated: a metadata record with an empty package list is never
\* delegated to the packaging tool.
C6_EmptyPackagesNeverDelegated ==
    setup_calls >= 1 => setup_args[1].packages # {}

\* C6 amended: when README.txt is readable and there is no sub-package to
\* discover, the script raises no error of its own: it goes on to call
\* setup() once, with an empty package list.
C6_EmptyPackagesDelegated ==
    (Readable /\ NoSubPackages) =>
        /\ (pc \in {"resolve_version", "build"} \cup Terminal =>
                setup_calls = 1 /\ setup_args[1].packages = {})
        /\ (raised # "none" => setup_calls = 1)

C6_Witness ==
    /\ NoSubPackages
    /\ init_dirs # {}
    /\ pc = "artifact"
    /\ setup_args[1].packages = {}

\* C7: setup() is only ever called after README.txt has been fully read.
C7_ReadBeforeSetup ==
    [][setup_calls' > setup_calls =>
          reads >= 1 /\ long_description = read(readme_content, universal_newlines)]_vars

C7_Witness ==
    /\ pc = "resolve_version"
    /\ reads = 1
    /\ setup_calls = 1
    /\ long_description # <<>>

\* C8: setup() is called at most once in a run, exactly once in a run that
\* produces the artifact, and the record handed over never changes.
C8_RecordBuiltOnce ==
    [][/\ setup_calls' <= 1
       /\ (pc' = "artifact" => setup_calls' = 1 /\ setup_args' # <<>>)
       /\ (setup_args # <<>> => setup_args' = setup_args)]_vars

C8_Witness ==
    /\ pc = "artifact"
    /\ setup_calls = 1
    /\ setup_args # <<>>
    /\ setup_args[1].packages = {1, 3}

\* C9: once an exception is raised the run does nothing but end: no
\* further read, no further setup() call, no step after the failed state,
\* and the exception the invoker sees is the one that was raised.
C9_FailureIsFatal ==
    [][/\ (raised # "none" =>
              /\ pc = "unwinding"
              /\ pc' = "failed"
              /\ raised' = raised
              /\ surfaced' = raised
              /\ reads' = reads
              /\ setup_calls' = setup_calls
              /\ artifact' = artifact)
       /\ (pc # "unwinding" => surfaced' = "none")]_vars

C9_Witness ==
    /\ pc = "failed"
    /\ raised = "DistutilsError"
    /\ surfaced = "DistutilsError"
    /\ reads = 1

\* C10: every run ends, and stays, in exactly one of the two terminal
\* states: artifact produced, or failed.
C10_RunsToCompletion ==
    <>[](\/ (pc = "artifact" /\ artifact # <<>> /\ surfaced = "none")
         \/ (pc = "failed" /\ artifact = <<>> /\ surfaced # "none"))

C10_Witness ==
    /\ pc = "failed"
    /\ surfaced = "UnicodeDecodeError"
    /\ reads = 0

====
